---- MODULE Spec2Model ----
(***************************************************************************)
(* Credit-scoring service (src/main.py) and its training-time encoder      *)
(* (src/script/script.py).                                                 *)
(*                                                                         *)
(*   SpecFind   ModelCache.find_model_file over every filesystem layout    *)
(*   Spec       the ModelCache state machine driven by the HTTP handlers,  *)
(*              each handler one atomic step                               *)
(*   SpecConc   ModelCache.get_model called by concurrent callers, one     *)
(*              step per blocking call                                     *)
(*   SpecEnc    CustomPreprocessor.fit / transform                         *)
(*   SpecRisk   make_prediction / calculate_risk_level                     *)
(***************************************************************************)
EXTENDS Integers, Sequences, FiniteSets, TLC

VARIABLES
  fs,           \* the filesystem: path -> "none" | "file" | "dir"
  art,          \* what the deployed artifact does to each loader
  model,        \* ModelCache.model
  model_path,   \* ModelCache.model_path
  load_method,  \* ModelCache.load_method
  started,      \* startup_event has run
  loads,        \* history: number of deserialization attempts so far
  writer,       \* history: which resolution wrote model_path / load_method
  last,         \* history: the last handler's resolution and response
  found,        \* SpecFind: the outcome of find_model_file
  pc,           \* SpecConc: each caller's position
  loc,          \* SpecConc: each caller's local variables
  epoch,        \* SpecConc: history of the current cold start / reload window
  enc,          \* SpecEnc: the CustomPreprocessor and its last transform
  pred          \* SpecRisk: the last make_prediction call

vars == <<fs, art, model, model_path, load_method, started, loads, writer,
          last, found, pc, loc, epoch, enc, pred>>

-----------------------------------------------------------------------------
(* Paths are sequences of components: "/app/model/model.pkl" is            *)
(* <<"app", "model", "model.pkl">>.                                        *)

MODEL_PATHS ==
  << <<"app", "model", "model.pkl">>,
     <<"app", "model">>,
     <<"app", "mlruns">> >>

NoPath == <<>>

join(path, name) == Append(path, name)

dirname(path) == SubSeq(path, 1, Len(path) - 1)

\* Every path the service may look at below /app.
Paths ==
  { <<"app">>,
    <<"app", "MLmodel">>,
    <<"app", "model">>,
    <<"app", "model", "MLmodel">>,
    <<"app", "model", "model.pkl">>,
    <<"app", "model", "model.pkl", "MLmodel">>,
    <<"app", "model", "model.pkl", "model.pkl">>,
    <<"app", "mlruns">>,
    <<"app", "mlruns", "MLmodel">>,
    <<"app", "mlruns", "model.pkl">> }

Kinds == {"none", "file", "dir"}

\* A marker file is either there or not; the leaves are never directories
\* with content of their own.
KindsOf(p) ==
  IF p = <<"app">> THEN {"dir"}
  ELSE IF p[Len(p)] = "MLmodel" THEN {"none", "file"}
  ELSE Kinds

\* A path exists only inside a directory.
WellFormed(f) ==
  \A p \in Paths : (Len(p) > 1 /\ f[p] # "none") => f[dirname(p)] = "dir"

FileSystems ==
  { f \in [Paths -> Kinds] : (\A p \in Paths : f[p] \in KindsOf(p)) /\ WellFormed(f) }

exists(f, p) == p \in Paths /\ f[p] # "none"
isfile(f, p) == p \in Paths /\ f[p] = "file"
isdir(f, p)  == p \in Paths /\ f[p] = "dir"

-----------------------------------------------------------------------------
(* ModelCache.find_model_file                                              *)

\* Mutant: the MLmodel marker is looked for before model.pkl.
Candidate_MarkerFirst(f, path) ==
  IF ~exists(f, path) THEN [ok |-> FALSE, path |-> NoPath]
  ELSE IF isfile(f, path) THEN [ok |-> TRUE, path |-> path]
  ELSE IF isdir(f, path) THEN
    IF exists(f, join(path, "MLmodel"))
      THEN [ok |-> TRUE, path |-> path]
    ELSE IF exists(f, join(path, "model.pkl"))
      THEN [ok |-> TRUE, path |-> join(path, "model.pkl")]
    ELSE [ok |-> FALSE, path |-> NoPath]
  ELSE [ok |-> FALSE, path |-> NoPath]

\* What one location of MODEL_PATHS yields: [ok, path].
Candidate(f, path) ==
  IF ~exists(f, path) THEN [ok |-> FALSE, path |-> NoPath]
  ELSE IF isfile(f, path) THEN [ok |-> TRUE, path |-> path]
  ELSE IF isdir(f, path) THEN
    IF exists(f, join(path, "model.pkl"))
      THEN [ok |-> TRUE, path |-> join(path, "model.pkl")]
    ELSE IF exists(f, join(path, "MLmodel"))
      THEN [ok |-> TRUE, path |-> path]
    ELSE [ok |-> FALSE, path |-> NoPath]
  ELSE [ok |-> FALSE, path |-> NoPath]

RECURSIVE FindFrom(_, _)
FindFrom(f, i) ==
  IF i > Len(MODEL_PATHS) THEN [ok |-> FALSE, path |-> NoPath]
  ELSE IF Candidate(f, MODEL_PATHS[i]).ok THEN Candidate(f, MODEL_PATHS[i])
  ELSE FindFrom(f, i + 1)

\* Mutant: the first location is assumed when nothing is found.
FindModelFile_Default(f) ==
  IF FindFrom(f, 1).ok THEN FindFrom(f, 1)
  ELSE [ok |-> TRUE, path |-> MODEL_PATHS[1]]

\* ok = FALSE is the FileNotFoundError raised after the loop.
FindModelFile(f) == FindFrom(f, 1)

-----------------------------------------------------------------------------
(* Values shared by the cache specifications                               *)

None == [gen |-> 0, usable |-> FALSE]

NoMethod == "None"

Idle == [op |-> "none"]

NoWriter == [path |-> 0, method |-> 0]

NoEnc == [phase |-> "unused"]

NoPred == [phase |-> "unused"]

NoArt == [mlflow |-> FALSE, file |-> "corrupt", obj |-> "none"]

-----------------------------------------------------------------------------
(* The artifact on disk, as the three loaders and the smoke test see it    *)

\* mlflow: mlflow.sklearn.load_model can read the directory's content;
\* file: "joblib" - joblib.load reads the file, "pickle" - joblib.load fails
\* and pickle.load reads it, "corrupt" - neither does;
\* obj: the deserialized object passes the smoke test ("good"), raises in it
\* ("broken"), or is a pickled None ("none").
Artifacts ==
  [mlflow : BOOLEAN, file : {"joblib", "pickle", "corrupt"},
   obj : {"good", "broken", "none"}]

\* The object a successful loader returns in resolution number gen.
ObjectOf(a, gen) ==
  IF a.obj = "none" THEN None ELSE [gen |-> gen, usable |-> a.obj = "good"]

\* mlflow.sklearn.load_model(load_path): it needs the MLmodel file of the
\* directory it is given.
MlflowLoads(f, a, load_path) ==
  exists(f, join(load_path, "MLmodel")) /\ a.mlflow

JoblibLoads(a) == a.file = "joblib"

PickleLoads(a) == a.file = "pickle"

\* ModelCache._test_model: predict and predict_proba on the sample row.
TestModelPasses(m) == m # None /\ m.usable

-----------------------------------------------------------------------------
(* ModelCache.load_model_from_file and get_model                           *)

Cache(m, p, lm) == [model |-> m, model_path |-> p, load_method |-> lm]

NoErr == [status |-> 200, cause |-> "none", locations |-> <<>>, reasons |-> <<>>]

\* The HTTPException(500) of lines 342-347; its detail carries str(e).
HttpError(cause, locations, reasons) ==
  [status |-> 500, cause |-> cause, locations |-> locations, reasons |-> reasons]

\* str(e) of the exception behind an error: the text the code builds
\* (lines 269 and 326) or the text of the exception the model raised.
Message(cause) ==
  IF cause = "FileNotFoundError" THEN "Aucun modèle trouvé dans: "
  ELSE IF cause = "Exception" THEN "Toutes les méthodes ont échoué: "
  ELSE IF cause = "ValueError" THEN "No objects to concatenate"
  ELSE IF cause = "none" THEN ""
  ELSE "<the exception raised by the model>"

\* The f-string in front of str(e) where the HTTPException is built: line
\* 346 around a resolution error, line 475 around an invocation error,
\* line 629 around any other error of predict_batch.
PrefixOf(cause) ==
  IF cause \in {"FileNotFoundError", "Exception", "TestError"}
    THEN "Impossible de charger le modèle: "
  ELSE IF cause = "ModelError" THEN "Erreur lors de la prédiction: "
  ELSE IF cause = "ValueError" THEN "Erreur lors du batch: "
  ELSE ""

\* What a handler puts around the HTTPException it caught: predict and
\* predict_batch re-raise it as it is, get_model_info raises a new one
\* whose detail is str(e), reload_model prefixes str(e).
WrapOf(op) ==
  IF op = "reload" THEN "Erreur lors du rechargement: "
  ELSE IF op = "model-info" THEN "str(e)"
  ELSE ""

NoDetail ==
  [wrap |-> "", prefix |-> "", message |-> "", locations |-> <<>>, reasons |-> <<>>]

\* The detail field of the 500 response body the client of op receives.
Detail(op, err) ==
  IF err.status # 500 THEN NoDetail
  ELSE [wrap |-> WrapOf(op), prefix |-> PrefixOf(err.cause),
        message |-> Message(err.cause),
        locations |-> err.locations, reasons |-> err.reasons]

\* Mutant: pickle is tried before joblib.
LoadStrategies_PickleFirst(f, a, path, gen) ==
  LET try1 == isdir(f, path)
              \/ (isdir(f, dirname(path))
                  /\ exists(f, join(dirname(path), "MLmodel")))
      load_path == IF isdir(f, path) THEN path ELSE dirname(path)
      ok1  == try1 /\ MlflowLoads(f, a, load_path)
      try3 == ~ok1 /\ isfile(f, path)
      ok3  == try3 /\ PickleLoads(a)
      try2 == ~ok1 /\ ~ok3 /\ isfile(f, path)
      ok2  == try2 /\ JoblibLoads(a)
      seq1(b, x) == IF b THEN <<x>> ELSE <<>>
  IN  [ loaded   |-> ok1 \/ ok2 \/ ok3,
        method   |-> IF ok1 THEN "mlflow" ELSE IF ok3 THEN "pickle"
                     ELSE IF ok2 THEN "joblib" ELSE NoMethod,
        model    |-> ObjectOf(a, gen),
        attempts |-> seq1(try1, "mlflow") \o seq1(try3, "pickle")
                     \o seq1(try2, "joblib"),
        errors   |-> seq1(try1 /\ ~ok1, "MLflow") \o seq1(try3 /\ ~ok3, "Pickle")
                     \o seq1(try2 /\ ~ok2, "Joblib") ]

\* Mutant: errors holds the last failure only, each except clause
\* overwriting the list instead of appending to it.
LoadStrategies_LastError(f, a, path, gen) ==
  LET try1 == isdir(f, path)
              \/ (isdir(f, dirname(path))
                  /\ exists(f, join(dirname(path), "MLmodel")))
      load_path == IF isdir(f, path) THEN path ELSE dirname(path)
      ok1  == try1 /\ MlflowLoads(f, a, load_path)
      try2 == ~ok1 /\ isfile(f, path)
      ok2  == try2 /\ JoblibLoads(a)
      try3 == ~ok1 /\ ~ok2 /\ isfile(f, path)
      ok3  == try3 /\ PickleLoads(a)
      seq1(b, x) == IF b THEN <<x>> ELSE <<>>
  IN  [ loaded   |-> ok1 \/ ok2 \/ ok3,
        method   |-> IF ok1 THEN "mlflow" ELSE IF ok2 THEN "joblib"
                     ELSE IF ok3 THEN "pickle" ELSE NoMethod,
        model    |-> ObjectOf(a, gen),
        attempts |-> seq1(try1, "mlflow") \o seq1(try2, "joblib")
                     \o seq1(try3, "pickle"),
        errors   |-> IF try3 /\ ~ok3 THEN <<"Pickle">>
                     ELSE IF try2 /\ ~ok2 THEN <<"Joblib">>
                     ELSE seq1(try1 /\ ~ok1, "MLflow") ]

\* Lines 280-326: the three strategies on the candidate path.  An entry of
\* errors is the failure reason of one strategy, "<Strategy>: <str(e)>",
\* named here by its strategy.
LoadStrategies(f, a, path, gen) ==
  LET try1 == isdir(f, path)
              \/ (isdir(f, dirname(path))
                  /\ exists(f, join(dirname(path), "MLmodel")))
      load_path == IF isdir(f, path) THEN path ELSE dirname(path)
      ok1  == try1 /\ MlflowLoads(f, a, load_path)
      try2 == ~ok1 /\ isfile(f, path)
      ok2  == try2 /\ JoblibLoads(a)
      try3 == ~ok1 /\ ~ok2 /\ isfile(f, path)
      ok3  == try3 /\ PickleLoads(a)
      seq1(b, x) == IF b THEN <<x>> ELSE <<>>
  IN  [ loaded   |-> ok1 \/ ok2 \/ ok3,
        method   |-> IF ok1 THEN "mlflow" ELSE IF ok2 THEN "joblib"
                     ELSE IF ok3 THEN "pickle" ELSE NoMethod,
        model    |-> ObjectOf(a, gen),
        attempts |-> seq1(try1, "mlflow") \o seq1(try2, "joblib")
                     \o seq1(try3, "pickle"),
        errors   |-> seq1(try1 /\ ~ok1, "MLflow") \o seq1(try2 /\ ~ok2, "Joblib")
                     \o seq1(try3 /\ ~ok3, "Pickle") ]

NoRes ==
  [outcome |-> "none", found |-> NoPath, attempts |-> <<>>, errors |-> <<>>,
   tested |-> FALSE]

Res(outcome, path, attempts, errors, tested) ==
  [outcome |-> outcome, found |-> path, attempts |-> attempts,
   errors |-> errors, tested |-> tested]

\* load_model_from_file on cache c, fnd being what find_model_file gives
\* and ld what the strategies give on fnd.path.
\* [cache, raised, err, ret, res]: the cache afterwards, whether the call
\* raised and with what, the value returned, and what the resolution did.
LoadModelFromFile(c, fnd, ld) ==
  IF ~fnd.ok THEN
    [cache |-> c, raised |-> TRUE,
     err |-> HttpError("FileNotFoundError", MODEL_PATHS, <<>>),
     ret |-> None, res |-> Res("notfound", NoPath, <<>>, <<>>, FALSE)]
  ELSE IF fnd.path = c.model_path THEN
    [cache |-> c, raised |-> FALSE, err |-> NoErr, ret |-> c.model,
     res |-> Res("skipped", fnd.path, <<>>, <<>>, FALSE)]
  ELSE IF ~ld.loaded THEN
    [cache |-> c, raised |-> TRUE,
     err |-> HttpError("Exception", <<>>, ld.errors),
     ret |-> None,
     res |-> Res("loadfail", fnd.path, ld.attempts, ld.errors, FALSE)]
  ELSE IF ~TestModelPasses(ld.model) THEN
    [cache |-> Cache(ld.model, fnd.path, ld.method), raised |-> TRUE,
     err |-> HttpError("TestError", <<>>, <<>>),
     ret |-> None,
     res |-> Res("testfail", fnd.path, ld.attempts, ld.errors, TRUE)]
  ELSE
    [cache |-> Cache(ld.model, fnd.path, ld.method), raised |-> FALSE,
     err |-> NoErr, ret |-> ld.model,
     res |-> Res("ok", fnd.path, ld.attempts, ld.errors, TRUE)]

\* Mutant: get_model resolves on every call, cached model or not.
GetModel_Always(c, fnd, ld) ==
  IF LoadModelFromFile(c, fnd, ld).raised
    THEN LoadModelFromFile(c, fnd, ld)
    ELSE [LoadModelFromFile(c, fnd, ld) EXCEPT
            !.ret = LoadModelFromFile(c, fnd, ld).cache.model]

\* Mutant: get_model takes the cache for loaded when model_path is set.
GetModel_PathGuard(c, fnd, ld) ==
  IF c.model_path = NoPath THEN
    IF LoadModelFromFile(c, fnd, ld).raised
      THEN LoadModelFromFile(c, fnd, ld)
      ELSE [LoadModelFromFile(c, fnd, ld) EXCEPT
              !.ret = LoadModelFromFile(c, fnd, ld).cache.model]
  ELSE
    [cache |-> c, raised |-> FALSE, err |-> NoErr, ret |-> c.model, res |-> NoRes]

\* get_model: resolve only when the cache holds no model, then return
\* whatever self.model is.
GetModel(c, fnd, ld) ==
  IF c.model = None THEN
    IF LoadModelFromFile(c, fnd, ld).raised
      THEN LoadModelFromFile(c, fnd, ld)
      ELSE [LoadModelFromFile(c, fnd, ld) EXCEPT
              !.ret = LoadModelFromFile(c, fnd, ld).cache.model]
  ELSE
    [cache |-> c, raised |-> FALSE, err |-> NoErr, ret |-> c.model, res |-> NoRes]

\* A resolution that reached the loaders made a deserialization attempt.
Attempted(res) == res.outcome \in {"loadfail", "testfail", "ok"}

-----------------------------------------------------------------------------
(* SpecFind: find_model_file applied to every filesystem layout            *)

NotRun == [ok |-> FALSE, path |-> <<"not run">>]

InitFind ==
  /\ fs \in FileSystems
  /\ found = NotRun
  /\ art = NoArt /\ model = None /\ model_path = NoPath /\ load_method = NoMethod
  /\ started = FALSE /\ loads = 0 /\ writer = NoWriter /\ last = Idle
  /\ pc = <<>> /\ loc = <<>> /\ epoch = 0
  /\ enc = NoEnc /\ pred = NoPred

RunFind ==
  /\ found = NotRun
  /\ found' = FindModelFile(fs)
  /\ UNCHANGED <<fs, art, model, model_path, load_method, started, loads,
                 writer, last, pc, loc, epoch, enc, pred>>

NextFind == RunFind

SpecFind == InitFind /\ [][NextFind]_vars

-----------------------------------------------------------------------------
(* C9: find_model_file returns what the first location of MODEL_PATHS that *)
(* yields a candidate yields: a regular file yields itself, a directory    *)
(* holding model.pkl yields that model.pkl, a directory without model.pkl  *)
(* but with an MLmodel marker yields the directory, anything else is       *)
(* skipped; it raises exactly when no location yields a candidate.         *)

C9_Yields(f, p) ==
  \/ f[p] = "file"
  \/ f[p] = "dir" /\ (f[join(p, "model.pkl")] # "none" \/ f[join(p, "MLmodel")] # "none")

C9_Yield(f, p) ==
  IF f[p] = "file" THEN p
  ELSE IF f[join(p, "model.pkl")] # "none" THEN join(p, "model.pkl")
  ELSE p

C9_FirstMatch ==
  found # NotRun =>
    LET hits == {i \in 1..Len(MODEL_PATHS) : C9_Yields(fs, MODEL_PATHS[i])}
    IN  /\ found.ok <=> hits # {}
        /\ found.ok =>
             \E i \in hits :
               /\ \A j \in hits : i <= j
               /\ found.path = C9_Yield(fs, MODEL_PATHS[i])

\* The third location is returned after two skipped ones, and model.pkl
\* wins over the MLmodel marker lying beside it.
C9_Witness ==
  /\ found.ok
  /\ found.path = <<"app", "mlruns", "model.pkl">>
  /\ fs[<<"app", "mlruns", "MLmodel">>] = "file"
  /\ fs[<<"app", "model">>] = "dir"

-----------------------------------------------------------------------------
(* Spec: the process-wide model_cache driven by the handlers.  A handler   *)
(* is a coroutine without an await, so it runs from start to end as one    *)
(* step.                                                                   *)

MaxLoads == 2

MaxBatch == 1

\* /app with /app/model of kind km holding model.pkl of kind kp and an
\* MLmodel marker of kind kk, and /app/mlruns of kind kr (a directory
\* holding an MLmodel marker), and nothing else.
Tree(km, kp, kk, kr) ==
  [p \in Paths |->
     IF p = <<"app">> THEN "dir"
     ELSE IF p = <<"app", "model">> THEN km
     ELSE IF p = <<"app", "model", "model.pkl">> THEN kp
     ELSE IF p = <<"app", "model", "MLmodel">> THEN kk
     ELSE IF p = <<"app", "mlruns">> THEN kr
     ELSE IF p = <<"app", "mlruns", "MLmodel">>
       THEN (IF kr = "dir" THEN "file" ELSE "none")
     ELSE "none"]

\* Layouts of /app the cache is run against: model.pkl is a file when it
\* is there, and /app/mlruns is absent or an MLflow model directory.
CacheLayouts ==
  { Tree(km, "none", "none", kr) : km \in {"none", "file"}, kr \in {"none", "dir"} }
  \cup { Tree("dir", kp, kk, kr) :
           kp \in {"none", "file"}, kk \in {"none", "file"}, kr \in {"none", "dir"} }

DeployedPaths ==
  { <<"app", "model">>, <<"app", "model", "model.pkl">>,
    <<"app", "model", "MLmodel">>, <<"app", "mlruns">> }

TheCache == Cache(model, model_path, load_method)

\* A handler calls get_model on cache c0 and answers with code500 when it
\* raises and code200 otherwise.  The resolution, when one is needed, is
\* number loads + 1.
CallGetModel(op, c0, w0, code200, code500) ==
  \E fnd \in {FindModelFile(fs)} :
  \E ld \in {LoadStrategies(fs, art, fnd.path, loads + 1)} :
  \E g \in {GetModel(c0, fnd, ld)} :
    /\ model' = g.cache.model
    /\ model_path' = g.cache.model_path
    /\ load_method' = g.cache.load_method
    /\ loads' = IF Attempted(g.res) THEN loads + 1 ELSE loads
    /\ writer' = IF g.res.outcome \in {"testfail", "ok"}
                   THEN [path |-> loads + 1, method |-> loads + 1]
                   ELSE w0
    /\ last' = [op |-> op, code |-> IF g.raised THEN code500 ELSE code200,
                model_loaded |-> ~g.raised /\ g.ret # None,
                ret |-> g.ret, err |-> g.err, res |-> g.res, pre |-> c0,
                detail |-> Detail(op, g.err), rows |-> 0, invoked |-> 0,
                predictions |-> 0]

\* startup_event: preload, and start without a model if that fails.
StartupEvent ==
  /\ ~started
  /\ started' = TRUE
  /\ CallGetModel("startup", TheCache, writer, 0, 0)
  /\ UNCHANGED <<fs, art, found, pc, loc, epoch, enc, pred>>

\* GET /api/health: 200 whether or not get_model raised.
HealthCheck ==
  /\ started /\ loads < MaxLoads
  /\ CallGetModel("health", TheCache, writer, 200, 200)
  /\ UNCHANGED <<fs, art, started, found, pc, loc, epoch, enc, pred>>

\* GET /api/model-info
GetModelInfo ==
  /\ started /\ loads < MaxLoads
  /\ CallGetModel("model-info", TheCache, writer, 200, 500)
  /\ UNCHANGED <<fs, art, started, found, pc, loc, epoch, enc, pred>>

\* Mutant: reload-model resolves first and replaces the cache only when
\* the resolution succeeds.
ReloadModel_KeepOnFailure ==
  /\ started /\ loads < MaxLoads
  /\ \E c0 \in {[TheCache EXCEPT !.model = None, !.model_path = NoPath]} :
     \E fnd \in {FindModelFile(fs)} :
     \E ld \in {LoadStrategies(fs, art, fnd.path, loads + 1)} :
     \E g \in {GetModel(c0, fnd, ld)} :
       /\ model' = IF g.raised THEN model ELSE g.cache.model
       /\ model_path' = IF g.raised THEN model_path ELSE g.cache.model_path
       /\ load_method' = IF g.raised THEN load_method ELSE g.cache.load_method
       /\ loads' = IF Attempted(g.res) THEN loads + 1 ELSE loads
       /\ writer' = IF g.res.outcome = "ok"
                      THEN [path |-> loads + 1, method |-> loads + 1]
                      ELSE writer
       /\ last' = [op |-> "reload", code |-> IF g.raised THEN 500 ELSE 200,
                   model_loaded |-> ~g.raised /\ g.ret # None,
                   ret |-> g.ret, err |-> g.err, res |-> g.res, pre |-> c0,
                   detail |-> Detail("reload", g.err), rows |-> 0,
                   invoked |-> 0, predictions |-> 0]
  /\ UNCHANGED <<fs, art, started, found, pc, loc, epoch, enc, pred>>

\* POST /api/reload-model: clear model and model_path, then get_model.
ReloadModel ==
  /\ started /\ loads < MaxLoads
  /\ CallGetModel("reload",
                  [TheCache EXCEPT !.model = None, !.model_path = NoPath],
                  [writer EXCEPT !.path = 0], 200, 500)
  /\ UNCHANGED <<fs, art, started, found, pc, loc, epoch, enc, pred>>

\* The model invocations of a request of n rows on the model m that
\* get_model returned: the number k of rows predicted before a row raises
\* (k = n: none does).  None has no predict method; any other object may
\* raise on a row.
Invocations(m, n) == IF m = None THEN {0} ELSE 0..n

\* predict_credit (n = 1) and predict_batch (n rows): get_model, then
\* make_prediction row after row until one raises.  An HTTPException
\* passes through unchanged; pd.concat raises ValueError on no rows.
CallAndPredict(op, n) ==
  \E fnd \in {FindModelFile(fs)} :
  \E ld \in {LoadStrategies(fs, art, fnd.path, loads + 1)} :
  \E g \in {GetModel(TheCache, fnd, ld)} :
  \E k \in (IF g.raised \/ n = 0 THEN {0} ELSE Invocations(g.ret, n)) :
  \E err \in {IF g.raised THEN g.err
               ELSE IF n = 0 THEN HttpError("ValueError", <<>>, <<>>)
               ELSE IF k < n THEN HttpError("ModelError", <<>>, <<>>)
               ELSE NoErr} :
    /\ model' = g.cache.model
    /\ model_path' = g.cache.model_path
    /\ load_method' = g.cache.load_method
    /\ loads' = IF Attempted(g.res) THEN loads + 1 ELSE loads
    /\ writer' = IF g.res.outcome \in {"testfail", "ok"}
                   THEN [path |-> loads + 1, method |-> loads + 1]
                   ELSE writer
    /\ last' = [op |-> op, code |-> err.status,
                model_loaded |-> ~g.raised /\ g.ret # None,
                ret |-> g.ret, err |-> err, res |-> g.res, pre |-> TheCache,
                detail |-> Detail(op, err), rows |-> n,
                invoked |-> IF g.raised \/ n = 0 THEN 0
                            ELSE IF k < n THEN k + 1 ELSE n,
                predictions |-> IF err.status = 200 THEN k ELSE 0]

\* POST /api/predict
PredictCredit ==
  /\ started /\ loads < MaxLoads
  /\ CallAndPredict("predict", 1)
  /\ UNCHANGED <<fs, art, started, found, pc, loc, epoch, enc, pred>>

\* POST /api/predict-batch
PredictBatch ==
  /\ started /\ loads < MaxLoads
  /\ \E n \in 0..MaxBatch : CallAndPredict("predict-batch", n)
  /\ UNCHANGED <<fs, art, started, found, pc, loc, epoch, enc, pred>>

\* The operator changes the files below /app, one entry at a time:
\* /app/model, its model.pkl, its MLmodel marker, or /app/mlruns.
DeployFiles ==
  /\ started /\ loads < MaxLoads
  /\ \E f \in CacheLayouts :
       /\ Cardinality({p \in DeployedPaths : f[p] # fs[p]}) = 1
       /\ fs' = f
  /\ UNCHANGED <<art, model, model_path, load_method, started, loads, writer,
                 last, found, pc, loc, epoch, enc, pred>>

\* The operator replaces the serialized model: what MLflow reads, what
\* joblib and pickle read, or the object inside.
DeployArtifact ==
  /\ started /\ loads < MaxLoads
  /\ \E a \in Artifacts :
       /\ Cardinality({k \in DOMAIN art : a[k] # art[k]}) = 1
       /\ art' = a
  /\ UNCHANGED <<fs, model, model_path, load_method, started, loads, writer,
                 last, found, pc, loc, epoch, enc, pred>>

Init ==
  /\ fs \in CacheLayouts
  /\ art \in Artifacts
  /\ model = None /\ model_path = NoPath /\ load_method = NoMethod
  /\ started = FALSE /\ loads = 0 /\ writer = NoWriter /\ last = Idle
  /\ found = NotRun /\ pc = <<>> /\ loc = <<>> /\ epoch = 0
  /\ enc = NoEnc /\ pred = NoPred

Next ==
  \/ StartupEvent
  \/ HealthCheck
  \/ GetModelInfo
  \/ ReloadModel
  \/ PredictCredit
  \/ PredictBatch
  \/ DeployFiles
  \/ DeployArtifact

Spec == Init /\ [][Next]_vars

-----------------------------------------------------------------------------
(* Claims about the cache, checked under Spec                              *)

Failed(res) == res.outcome \in {"notfound", "loadfail", "testfail"}

(* C1: a model that fails the smoke test is never cached or served: the    *)
(* cache never holds a model that did not pass _test_model, and get_model  *)
(* never returns one.                                                      *)
C1_FailedModelNeverServed ==
  /\ model # None => model.usable
  /\ (last.op # "none" /\ last.ret # None) => last.ret.usable

(* C5: the cache entry is never partially mutated: model, model_path and   *)
(* load_method are all unset, or all set by one and the same successful    *)
(* resolution.                                                             *)
C5_NeverPartiallyMutated ==
  \/ model = None /\ model_path = NoPath /\ load_method = NoMethod
  \/ /\ model # None /\ model.usable
     /\ model_path # NoPath /\ load_method # NoMethod
     /\ writer.path = model.gen /\ writer.method = model.gen

(* C6: a failed resolution returns the cache to EMPTY: after a get_model   *)
(* whose resolution failed (no candidate, every strategy failed, or the    *)
(* smoke test failed) the cache holds no model.                            *)
C6_FailureLeavesEmpty ==
  (last.op # "none" /\ Failed(last.res)) => model = None

(* C10: when no location of MODEL_PATHS yields a candidate, a handler that *)
(* has to resolve gets the not-found error, whose message lists every      *)
(* location of MODEL_PATHS; no loading strategy is attempted and the       *)
(* resolution leaves model, model_path and load_method as it found them.   *)
C10_NoCandidate ==
  \A i \in 1..Len(MODEL_PATHS) : ~C9_Yields(fs, MODEL_PATHS[i])

C10_NotFound ==
  [][ ( /\ C10_NoCandidate
        /\ fs' = fs /\ art' = art
        /\ last'.op # "none"
        /\ (model = None \/ last'.op = "reload") )
      =>
      ( /\ last'.res.outcome = "notfound"
        /\ last'.err.status = 500
        /\ last'.err.cause = "FileNotFoundError"
        /\ \A i \in 1..Len(MODEL_PATHS) :
             \E k \in 1..Len(last'.err.locations) :
               last'.err.locations[k] = MODEL_PATHS[i]
        /\ last'.res.attempts = <<>>
        /\ loads' = loads
        /\ Cache(model', model_path', load_method') = last'.pre
        /\ load_method' = load_method ) ]_vars

\* A reload finds nothing where a model had been loaded before.
C10_Witness ==
  /\ last.op = "reload"
  /\ last.res.outcome = "notfound"
  /\ load_method # NoMethod
  /\ C10_NoCandidate

(* C11: when every strategy attempted for the candidate fails,             *)
(* load_model_from_file raises one aggregate error (HTTP 500) whose message *)
(* holds the failure reason of each attempted strategy, in attempt order,   *)
(* none omitted and none added.                                             *)
C11_ReasonOf(strategy) ==
  IF strategy = "mlflow" THEN "MLflow"
  ELSE IF strategy = "joblib" THEN "Joblib" ELSE "Pickle"

C11_AggregateError ==
  (last.op # "none" /\ last.res.outcome = "loadfail") =>
    /\ last.err.status = 500
    /\ last.err.cause = "Exception"
    /\ Len(last.res.attempts) >= 1
    /\ Len(last.err.reasons) = Len(last.res.attempts)
    /\ \A k \in 1..Len(last.res.attempts) :
         last.err.reasons[k] = C11_ReasonOf(last.res.attempts[k])

\* MLflow, joblib and pickle were all attempted on model.pkl and all failed.
C11_Witness ==
  /\ last.op # "none"
  /\ last.res.outcome = "loadfail"
  /\ last.res.attempts = <<"mlflow", "joblib", "pickle">>
  /\ last.err.reasons = <<"MLflow", "Joblib", "Pickle">>

------------------------------------------------------------------------(* C20 as stated: on any candidate, file or directory, the strategies are  *)
(* attempted in the fixed order MLflow, joblib, pickle; a later one is      *)
(* attempted if and only if all earlier ones failed; the first success      *)
(* stops the chain and load_method records the strategy that succeeded.     *)
C20_Chain == <<"mlflow", "joblib", "pickle">>

C20_Loaded(res) == res.outcome \in {"ok", "testfail"}

\* The attempts but the last failed, and the last one failed unless the
\* resolution loaded a model.
C20_FailedBeforeSuccess(res) ==
  /\ Len(res.errors) = (IF C20_Loaded(res) THEN Len(res.attempts) - 1
                        ELSE Len(res.attempts))
  /\ \A k \in 1..Len(res.errors) : res.errors[k] = C11_ReasonOf(res.attempts[k])

C20_FixedChain ==
  [][ (fs' = fs /\ art' = art /\ last'.op # "none" /\ Attempted(last'.res))
      =>
      ( /\ Len(last'.res.attempts) \in 1..3
        /\ last'.res.attempts = SubSeq(C20_Chain, 1, Len(last'.res.attempts))
        /\ C20_FailedBeforeSuccess(last'.res)
        /\ ~C20_Loaded(last'.res) => last'.res.attempts = C20_Chain
        /\ C20_Loaded(last'.res) =>
             load_method' = last'.res.attempts[Len(last'.res.attempts)] ) ]_vars

(* C20 as amended: the strategies that apply to the candidate are attempted *)
(* in the fixed order MLflow, joblib, pickle, where MLflow applies to a     *)
(* directory candidate and to a file candidate with an MLmodel marker       *)
(* beside it, and joblib and pickle apply to a file candidate; an           *)
(* applicable strategy is attempted if and only if every strategy attempted *)
(* before it failed; the first success stops the chain and load_method      *)
(* records the strategy that succeeded.                                     *)
C20_Applies(f, path, strategy) ==
  IF strategy = "mlflow"
    THEN f[path] = "dir"
         \/ (f[dirname(path)] = "dir" /\ f[join(dirname(path), "MLmodel")] # "none")
    ELSE f[path] = "file"

C20_ApplicableInOrder ==
  [][ (fs' = fs /\ art' = art /\ last'.op # "none" /\ Attempted(last'.res))
      =>
      LET res == last'.res
          applicable == SelectSeq(C20_Chain, LAMBDA x : C20_Applies(fs, res.found, x))
      IN  /\ Len(res.attempts) \in 1..Len(applicable)
          /\ res.attempts = SubSeq(applicable, 1, Len(res.attempts))
          /\ C20_FailedBeforeSuccess(res)
          /\ ~C20_Loaded(res) => res.attempts = applicable
          /\ C20_Loaded(res) =>
               load_method' = res.attempts[Len(res.attempts)] ]_vars

\* A directory candidate on which MLflow failed: joblib and pickle do not
\* apply and were not attempted.
C20_Witness ==
  /\ last.op # "none"
  /\ last.res.outcome = "loadfail"
  /\ fs[last.res.found] = "dir"
  /\ last.res.attempts = <<"mlflow">>

(* C15: health_check never raises and reports the cache truthfully: it     *)
(* always answers, after attempting a resolution when the cache holds no    *)
(* model, and it says healthy (model_loaded) if and only if the cache holds *)
(* a model whose resolution succeeded.                                      *)
C15_HealthTruthful ==
  last.op = "health" =>
    /\ last.code = 200
    /\ last.pre.model = None => last.res.outcome # "none"
    /\ last.model_loaded <=> (model # None /\ model.usable)

(* C18 as stated: loading is never retried automatically: once a           *)
(* resolution has failed, no request other than reload-model makes another  *)
(* load attempt, and one get_model call makes at most one attempt.          *)
C18_NoAutomaticRetry ==
  [][ (fs' = fs /\ art' = art /\ last.op # "none" /\ last'.op # "none")
      =>
      ( /\ loads' \in {loads, loads + 1}
        /\ (Failed(last.res) /\ last'.op # "reload") => loads' = loads ) ]_vars

(* C18 as amended: a request makes a resolution attempt exactly when the    *)
(* cache holds no model at that time or the request is reload-model, so the *)
(* request after a failed resolution that left no model tries again; a      *)
(* request served by a cached model makes none; one get_model call makes at *)
(* most one resolution attempt and at most one pass over the loaders.       *)
C18_RetryWhenEmpty ==
  [][ (fs' = fs /\ art' = art /\ last'.op # "none")
      =>
      ( /\ loads' \in {loads, loads + 1}
        /\ loads' = loads + 1 <=> Attempted(last'.res)
        /\ last'.res.outcome # "none" <=> (model = None \/ last'.op = "reload") ) ]_vars

\* A health request makes the second load attempt, after a first one that
\* failed and without any reload.
C18_Witness ==
  /\ last.op = "health"
  /\ Attempted(last.res)
  /\ loads = 2
  /\ last.pre = Cache(None, NoPath, NoMethod)

(* C19: internal failures are opaque to the client: two 5xx responses of    *)
(* the same endpoint whose underlying causes differ carry the same body,    *)
(* the timestamp apart.                                                     *)
C19_OpaqueFailure ==
  [][ ( /\ last.op # "none" /\ last'.op = last.op
        /\ last.code = 500 /\ last'.code = 500
        /\ last.err.cause # last'.err.cause )
      => last'.detail = last.detail ]_vars

(* C21: while the cache is READY (it holds a model) get_model returns the   *)
(* cached model with no filesystem access and no load attempt and leaves    *)
(* model, model_path and load_method as they are, whatever has become of    *)
(* the files at MODEL_PATHS; and READY is the only state in which get_model *)
(* returns without a resolution: with no model in the cache, every call     *)
(* goes through load_model_from_file.                                       *)
C21_ReadyServesFromCache ==
  [][ (fs' = fs /\ art' = art /\ last'.op # "none")
      =>
      ( /\ last'.op # "reload" => last'.pre = TheCache
        /\ last'.pre.model # None
           => /\ last'.res = NoRes
              /\ loads' = loads
              /\ last'.ret = last'.pre.model
              /\ Cache(model', model_path', load_method') = last'.pre
        /\ last'.res.outcome = "none" => last'.pre.model # None ) ]_vars

\* A request served from the cache after the file the model was loaded
\* from has gone from every location of MODEL_PATHS.
C21_Witness ==
  /\ last.op \in {"health", "model-info", "predict", "predict-batch"}
  /\ last.pre.model # None
  /\ last.res = NoRes
  /\ last.ret = model
  /\ model_path # NoPath
  /\ ~FindModelFile(fs).ok

(* C22: when load_model_from_file runs and the path it resolves is the      *)
(* model_path of the cache, it makes no load attempt and no smoke test,     *)
(* leaves the cache fields unchanged and returns a usable model; and        *)
(* get_model never returns without raising and without a model.             *)
C22_SkipReturnsModel ==
  [][ (fs' = fs /\ art' = art /\ last'.op # "none")
      =>
      ( /\ last'.res.outcome = "skipped"
           => /\ last'.res.found = last'.pre.model_path
              /\ last'.res.attempts = <<>>
              /\ ~last'.res.tested
              /\ loads' = loads
              /\ Cache(model', model_path', load_method') = last'.pre
              /\ last'.ret # None
              /\ last'.ret.usable
        /\ ~Failed(last'.res) => last'.ret # None ) ]_vars

\* A resolution that found no candidate, or one whose strategies all failed.
C24_NothingLoaded(res) == res.outcome \in {"notfound", "loadfail"}

(* C24: reload_model invalidates before it re-resolves: a reload whose      *)
(* re-resolution finds no candidate, or whose strategies all fail, leaves   *)
(* the cache with no model, the model served until then included, and       *)
(* answers 500; and as long as the cache holds no model every predict and   *)
(* predict-batch call attempts the resolution again and answers 500 unless  *)
(* that resolution succeeds.                                                *)
C24_FailedReloadDiscards ==
  [][ (fs' = fs /\ art' = art /\ last'.op # "none")
      =>
      ( /\ (last'.op = "reload" /\ C24_NothingLoaded(last'.res))
           => /\ last'.pre = [TheCache EXCEPT !.model = None, !.model_path = NoPath]
              /\ model' = None
              /\ model_path' = NoPath
              /\ last'.ret = None
              /\ last'.code = 500
        /\ (last'.op \in {"predict", "predict-batch"} /\ model = None)
           => /\ last'.res.outcome # "none"
              /\ last'.code = 500 \/ last'.res.outcome = "ok" ) ]_vars

\* A predict call that fails on a cache emptied by a reload which found
\* nothing to load in place of the model loaded before it.
C24_Witness ==
  /\ last.op = "predict"
  /\ last.pre = Cache(None, NoPath, load_method)
  /\ load_method # NoMethod
  /\ C24_NothingLoaded(last.res)
  /\ last.code = 500
  /\ model = None

-----
(* SpecConc: get_model and reload_model called by concurrent callers.      *)
(* ModelCache takes no lock, so callers interleave between the statements  *)
(* of get_model and load_model_from_file; a step is one blocking call      *)
(* (the directory scan, the deserialization, the smoke test) or one        *)
(* assignment.                                                             *)

NThreads == 2

MaxConcLoads == 3

Threads == 1..NThreads

NoLoc ==
  [path |-> NoPath, gen |-> 0, k |-> 0, obj |-> None, method |-> NoMethod,
   early |-> FALSE, out |-> "none", ret |-> None]

ColdStart == [kind |-> "cold", done |-> FALSE, loads |-> 0]

InFlight == {t \in Threads : pc[t] # "idle"}

\* A caller enters get_model (op = "get": predict, predict-batch, health,
\* model-info) or reload_model.
Call(t) ==
  /\ pc[t] = "idle"
  /\ loads + Cardinality(InFlight) < MaxConcLoads
  /\ \E op \in {"get", "reload"} :
       pc' = [pc EXCEPT ![t] = IF op = "reload" THEN "clear" ELSE "check"]
  /\ loc' = [loc EXCEPT ![t] = NoLoc]
  /\ UNCHANGED <<fs, art, model, model_path, load_method, started, loads,
                 writer, last, found, epoch, enc, pred>>

\* reload_model, line 637: model_cache.model = None.  The cache is
\* invalidated from here on; the callers already inside a resolution belong
\* to the window that ends here.
ClearModel(t) ==
  /\ pc[t] = "clear"
  /\ model' = None
  /\ epoch' = [kind |-> "reload", done |-> FALSE, loads |-> 0]
  /\ loc' = [u \in Threads |-> [loc[u] EXCEPT !.early = FALSE]]
  /\ pc' = [pc EXCEPT ![t] = "clearpath"]
  /\ UNCHANGED <<fs, art, model_path, load_method, started, loads, writer,
                 last, found, enc, pred>>

\* reload_model, line 638: model_cache.model_path = None.
ClearPath(t) ==
  /\ pc[t] = "clearpath"
  /\ model_path' = NoPath
  /\ writer' = [writer EXCEPT !.path = 0]
  /\ pc' = [pc EXCEPT ![t] = "check"]
  /\ UNCHANGED <<fs, art, model, load_method, started, loads, last, found,
                 loc, epoch, enc, pred>>

\* get_model, line 392: if self.model is None.
Check(t) ==
  /\ pc[t] = "check"
  /\ pc' = [pc EXCEPT ![t] = IF model = None THEN "find" ELSE "return"]
  /\ loc' = [loc EXCEPT ![t].early = (model = None /\ ~epoch.done)]
  /\ UNCHANGED <<fs, art, model, model_path, load_method, started, loads,
                 writer, last, found, epoch, enc, pred>>

\* load_model_from_file, line 274: model_path = self.find_model_file(), the
\* scan of MODEL_PATHS, which raises when it finds nothing.
Find(t) ==
  /\ pc[t] = "find"
  /\ \E fnd \in {FindModelFile(fs)} :
       IF ~fnd.ok THEN
         /\ pc' = [pc EXCEPT ![t] = "idle"]
         /\ loc' = [loc EXCEPT ![t].out = "error"]
         /\ epoch' = [epoch EXCEPT !.done = TRUE]
       ELSE
         /\ pc' = [pc EXCEPT ![t] = "compare"]
         /\ loc' = [loc EXCEPT ![t].path = fnd.path]
         /\ epoch' = epoch
  /\ UNCHANGED <<fs, art, model, model_path, load_method, started, loads,
                 writer, last, found, enc, pred>>

\* Line 277: if model_path != self.model_path, on self.model_path as it is
\* now; an equal path goes to the return of line 340.
Compare(t) ==
  /\ pc[t] = "compare"
  /\ IF loc[t].path = model_path
       THEN /\ pc' = [pc EXCEPT ![t] = "return"]
            /\ epoch' = [epoch EXCEPT !.done = TRUE]
       ELSE /\ pc' = [pc EXCEPT ![t] = "load"]
            /\ epoch' = epoch
  /\ UNCHANGED <<fs, art, model, model_path, load_method, started, loads,
                 writer, last, found, loc, enc, pred>>

\* The strategies this caller's resolution goes through (lines 284-323),
\* gen being the number of the resolution.
StrategiesOf(t, gen) == LoadStrategies(fs, art, loc[t].path, gen)

\* One strategy of lines 284-323 makes its blocking call (mlflow at line
\* 289, joblib at 304, pickle at 317): the first call of a resolution
\* counts the resolution; the call returns the object, still unassigned, or
\* raises, and after the last strategy raised line 326 raises.
Attempt(t) ==
  /\ pc[t] = "load"
  /\ \E first \in {loc[t].k = 0} :
     \E gen \in {IF first THEN loads + 1 ELSE loc[t].gen} :
     \E ld \in {StrategiesOf(t, gen)} :
     \E k \in {loc[t].k + 1} :
       /\ loads' = IF first THEN loads + 1 ELSE loads
       /\ IF k = Len(ld.attempts) /\ ld.loaded THEN
            /\ pc' = [pc EXCEPT ![t] = "setmodel"]
            /\ loc' = [loc EXCEPT ![t].gen = gen, ![t].k = k,
                                  ![t].obj = ld.model,
                                  ![t].method = ld.attempts[k]]
            /\ epoch' = [epoch EXCEPT
                           !.loads = IF first /\ loc[t].early THEN @ + 1 ELSE @]
          ELSE IF k < Len(ld.attempts) THEN
            /\ pc' = pc
            /\ loc' = [loc EXCEPT ![t].gen = gen, ![t].k = k]
            /\ epoch' = [epoch EXCEPT
                           !.loads = IF first /\ loc[t].early THEN @ + 1 ELSE @]
          ELSE
            /\ pc' = [pc EXCEPT ![t] = "idle"]
            /\ loc' = [loc EXCEPT ![t].gen = gen, ![t].k = k,
                                  ![t].out = "error"]
            /\ epoch' = [epoch EXCEPT
                           !.loads = IF first /\ loc[t].early THEN @ + 1 ELSE @,
                           !.done = TRUE]
  /\ UNCHANGED <<fs, art, model, model_path, load_method, started, writer,
                 last, found, enc, pred>>

\* Lines 289, 304, 317: self.model = <the object the call returned>.
SetModel(t) ==
  /\ pc[t] = "setmodel"
  /\ model' = loc[t].obj
  /\ pc' = [pc EXCEPT ![t] = "setmethod"]
  /\ UNCHANGED <<fs, art, model_path, load_method, started, loads, writer,
                 last, found, loc, epoch, enc, pred>>

\* Lines 290, 305, 318: self.load_method = <the strategy's name>.
SetMethod(t) ==
  /\ pc[t] = "setmethod"
  /\ load_method' = loc[t].method
  /\ writer' = [writer EXCEPT !.method = loc[t].gen]
  /\ pc' = [pc EXCEPT ![t] = "setpath"]
  /\ UNCHANGED <<fs, art, model, model_path, started, loads, last, found,
                 loc, epoch, enc, pred>>

\* Line 328: self.model_path = model_path.
SetPath(t) ==
  /\ pc[t] = "setpath"
  /\ model_path' = loc[t].path
  /\ writer' = [writer EXCEPT !.path = loc[t].gen]
  /\ pc' = [pc EXCEPT ![t] = "test"]
  /\ UNCHANGED <<fs, art, model, load_method, started, loads, last, found,
                 loc, epoch, enc, pred>>

\* Lines 334-338: _test_model on whatever self.model is now.
Test(t) ==
  /\ pc[t] = "test"
  /\ IF TestModelPasses(model)
       THEN /\ pc' = [pc EXCEPT ![t] = "return"]
            /\ loc' = loc
       ELSE /\ pc' = [pc EXCEPT ![t] = "idle"]
            /\ loc' = [loc EXCEPT ![t].out = "error"]
  /\ epoch' = [epoch EXCEPT !.done = TRUE]
  /\ UNCHANGED <<fs, art, model, model_path, load_method, started, loads,
                 writer, last, found, enc, pred>>

\* get_model, line 394: return self.model, self.model_version.
Return(t) ==
  /\ pc[t] = "return"
  /\ pc' = [pc EXCEPT ![t] = "idle"]
  /\ loc' = [loc EXCEPT ![t].out = "ok", ![t].ret = model]
  /\ UNCHANGED <<fs, art, model, model_path, load_method, started, loads,
                 writer, last, found, epoch, enc, pred>>

InitConc ==
  /\ fs \in CacheLayouts
  /\ art \in Artifacts
  /\ model = None /\ model_path = NoPath /\ load_method = NoMethod
  /\ started = TRUE /\ loads = 0 /\ writer = NoWriter /\ last = Idle
  /\ found = NotRun
  /\ pc = [t \in Threads |-> "idle"]
  /\ loc = [t \in Threads |-> NoLoc]
  /\ epoch = ColdStart
  /\ enc = NoEnc /\ pred = NoPred

NextConc ==
  \E t \in Threads :
    \/ Call(t)
    \/ ClearModel(t)
    \/ ClearPath(t)
    \/ Check(t)
    \/ Find(t)
    \/ Compare(t)
    \/ Attempt(t)
    \/ SetModel(t)
    \/ SetMethod(t)
    \/ SetPath(t)
    \/ Test(t)
    \/ Return(t)

SpecConc == InitConc /\ [][NextConc]_vars

(* C3: at most one resolution is in flight: the callers that enter         *)
(* get_model on the empty cache before the first resolution has completed  *)
(* cause one deserialization in total.                                     *)
C3_OneLoadOnColdStart ==
  epoch.kind = "cold" => epoch.loads <= 1

(* C4: a reload triggers exactly one fresh resolution: the callers that    *)
(* enter get_model after reload_model cleared the cache and before the     *)
(* re-resolution has completed cause one deserialization in total.         *)
C4_OneLoadPerReload ==
  epoch.kind = "reload" => epoch.loads <= 1

-----------------------------------------------------------------------------
(* The encoder of src/script/script.py                                     *)

numerical_features ==
  << "Duration in month",
     "Credit amount",
     "Installment rate in percentage of disposable income",
     "Age in years",
     "Number of existing credits at this bank",
     "Number of people being liable to provide maintenance for" >>

ordinal_categorical_features ==
  << "Status of existing checking account",
     "Credit history",
     "Savings account/bonds",
     "Present employment since",
     "Job" >>

nominal_categorical_features ==
  << "Purpose",
     "Personal status and sex",
     "Other debtors / guarantors",
     "Property",
     "Other installment plans",
     "Housing",
     "Telephone",
     "foreign worker" >>

status_mapping == ("A11" :> 0) @@ ("A12" :> 1) @@ ("A13" :> 2) @@ ("A14" :> 3)

credit_history_mapping ==
  ("A30" :> 0) @@ ("A31" :> 1) @@ ("A32" :> 2) @@ ("A33" :> 3) @@ ("A34" :> 4)

savings_mapping ==
  ("A61" :> 0) @@ ("A62" :> 1) @@ ("A63" :> 2) @@ ("A64" :> 3) @@ ("A65" :> 4)

employment_mapping ==
  ("A71" :> 0) @@ ("A72" :> 1) @@ ("A73" :> 2) @@ ("A74" :> 3) @@ ("A75" :> 4)

job_mapping == ("A171" :> 0) @@ ("A172" :> 1) @@ ("A173" :> 2) @@ ("A174" :> 3)

ALL_MAPPINGS ==
  ("Status of existing checking account" :> status_mapping)
  @@ ("Credit history" :> credit_history_mapping)
  @@ ("Savings account/bonds" :> savings_mapping)
  @@ ("Present employment since" :> employment_mapping)
  @@ ("Job" :> job_mapping)

\* A DataFrame: its column labels in order, and its rows, each a function
\* from the column labels to the cells.
Frame(columns, rows) == [columns |-> columns, rows |-> rows]

InSeq(x, sq) == \E i \in 1..Len(sq) : sq[i] = x

Range(sq) == {sq[i] : i \in 1..Len(sq)}

\* The category codes in the order pandas sorts them (as strings).
Lexicographic == <<"A151", "A152", "A153", "A40", "A43", "A44">>

\* Mutant: an unknown code is filled with 0, the rank of the first level.
MapOrdinals_FillZero(X, mappings) ==
  Frame(X.columns,
        [i \in 1..Len(X.rows) |->
           [c \in Range(X.columns) |->
              IF c \in DOMAIN mappings
                THEN IF X.rows[i][c] \in DOMAIN mappings[c]
                       THEN mappings[c][X.rows[i][c]]
                       ELSE 0
                ELSE X.rows[i][c]]])

\* Lines 177-182: X[col].map(mapping), then fillna(-1).
MapOrdinals(X, mappings) ==
  Frame(X.columns,
        [i \in 1..Len(X.rows) |->
           [c \in Range(X.columns) |->
              IF c \in DOMAIN mappings
                THEN IF X.rows[i][c] \in DOMAIN mappings[c]
                       THEN mappings[c][X.rows[i][c]]
                       ELSE -1
                ELSE X.rows[i][c]]])

\* The levels get_dummies finds in column c of X, sorted.
SortedLevels(X, c) ==
  SelectSeq(Lexicographic, LAMBDA v : \E i \in 1..Len(X.rows) : X.rows[i][c] = v)

\* The indicator columns of column c: one per level found in X but the
\* first (drop_first=True), named <column>_<level>.
DummiesOf(X, c) ==
  [k \in 1..(Len(SortedLevels(X, c)) - 1) |->
     [col |-> c, level |-> SortedLevels(X, c)[k + 1],
      name |-> c \o "_" \o SortedLevels(X, c)[k + 1]]]

RECURSIVE DummiesFrom(_, _, _)
DummiesFrom(X, cols, i) ==
  IF i > Len(cols) THEN <<>>
  ELSE DummiesOf(X, cols[i]) \o DummiesFrom(X, cols, i + 1)

\* pd.get_dummies(X, columns=cols, drop_first=True): the other columns in
\* their order, then the indicator columns of each encoded column.
GetDummies(X, cols) ==
  LET kept == SelectSeq(X.columns, LAMBDA c : ~InSeq(c, cols))
      dums == DummiesFrom(X, cols, 1)
      names == [k \in 1..Len(dums) |-> dums[k].name]
      cell(i, c) ==
        IF InSeq(c, kept) THEN X.rows[i][c]
        ELSE LET d == CHOOSE d \in Range(dums) : d.name = c
             IN  IF X.rows[i][d.col] = d.level THEN 1 ELSE 0
  IN  Frame(kept \o names,
            [i \in 1..Len(X.rows) |-> [c \in Range(kept \o names) |-> cell(i, c)]])

\* CustomPreprocessor._apply_mappings_and_encoding
ApplyMappingsAndEncoding(X) ==
  LET X1 == MapOrdinals(X, ALL_MAPPINGS)
      cols_to_encode ==
        SelectSeq(nominal_categorical_features, LAMBDA c : InSeq(c, X1.columns))
  IN  IF Len(cols_to_encode) > 0 THEN GetDummies(X1, cols_to_encode) ELSE X1

\* The columns of an encoded frame that the scaler works on.
NumCols(Xp) == SelectSeq(Xp.columns, LAMBDA c : InSeq(c, numerical_features))

RECURSIVE SumCol(_, _, _)
SumCol(rows, c, i) ==
  IF i > Len(rows) THEN 0 ELSE rows[i][c] + SumCol(rows, c, i + 1)

RECURSIVE SumSqCol(_, _, _)
SumSqCol(rows, c, i) ==
  IF i > Len(rows) THEN 0 ELSE rows[i][c] * rows[i][c] + SumSqCol(rows, c, i + 1)

\* StandardScaler.fit on column c: the count, the sum and the sum of
\* squares, which fix mean_ and scale_.
ScalerFit(Xp, c) ==
  [n |-> Len(Xp.rows), sum |-> SumCol(Xp.rows, c, 1), sumsq |-> SumSqCol(Xp.rows, c, 1)]

\* StandardScaler.transform of x: (x - mean_) / scale_, kept exact as
\* num / sqrt(rad) / ... : with mean_ = sum/n and var_ = sumsq/n - mean_^2,
\* (x - mean_) / sqrt(var_) = (n*x - sum) / sqrt(n*sumsq - sum^2); a zero
\* variance gives scale_ = 1 and (n*x - sum) / n.
ScalerTransform(st, x) ==
  [num |-> st.n * x - st.sum,
   rad |-> st.n * st.sumsq - st.sum * st.sum,
   n   |-> st.n]

NoFrame == Frame(<<>>, <<>>)

\* CustomPreprocessor.fit: [feature_names_, scaler].
Fit(X) ==
  LET X_processed == ApplyMappingsAndEncoding(X)
  IN  [feature_names_ |-> X_processed.columns,
       scaler |-> [c \in Range(NumCols(X_processed)) |-> ScalerFit(X_processed, c)]]

\* Mutant: the missing columns are added but the frame is not reindexed.
Reconcile_NoReindex(feature_names_, Xs) ==
  LET missing == SelectSeq(feature_names_, LAMBDA c : ~InSeq(c, Xs.columns))
  IN  Frame(Xs.columns \o missing,
            [i \in 1..Len(Xs.rows) |->
               [c \in Range(Xs.columns \o missing) |->
                  IF InSeq(c, Xs.columns) THEN Xs.rows[i][c] ELSE 0]])

\* Lines 160-165: add each missing reference column with 0, then select
\* the reference columns in their order.
Reconcile(feature_names_, Xs) ==
  Frame(feature_names_,
        [i \in 1..Len(Xs.rows) |->
           [c \in Range(feature_names_) |->
              IF InSeq(c, Xs.columns) THEN Xs.rows[i][c] ELSE 0]])

\* CustomPreprocessor.transform with the fitted state p.
Transform(p, X) ==
  LET X_processed == ApplyMappingsAndEncoding(X)
      num_cols == NumCols(X_processed)
      Xs == Frame(X_processed.columns,
                  [i \in 1..Len(X_processed.rows) |->
                     [c \in Range(X_processed.columns) |->
                        IF InSeq(c, num_cols)
                          THEN ScalerTransform(p.scaler[c], X_processed.rows[i][c])
                          ELSE X_processed.rows[i][c]]])
  IN  IF Len(p.feature_names_) > 0 THEN Reconcile(p.feature_names_, Xs) ELSE Xs

------------------------------------------------------------------------
(* transform as the statements of lines 150-189 acting on objects.  A heap *)
(* is a sequence of frame objects and a reference is an index into it; an  *)
(* object holds its content and, in writes, the columns assigned in place   *)
(* (df[col] = ...) since it was created.  The caller's frame is an object   *)
(* of the heap like the copies and the results.                             *)

Obj(frame) == [frame |-> frame, writes |-> <<>>]

\* df.copy(): a new object with the content of object x.
copy(h, x) == [heap |-> Append(h, Obj(h[x].frame)), ref |-> Len(h) + 1]

\* df[c] = ... for each c of cols: object x holds frame afterwards, and the
\* assignments are made to that object, whoever else refers to it.
SetColumns(h, x, cols, frame) ==
  [h EXCEPT ![x] = [frame |-> frame, writes |-> @.writes \o cols]]

\* The attributes of self that transform reads.
Self(p) ==
  [feature_names_ |-> p.feature_names_, scaler |-> p.scaler,
   mappings |-> p.mappings]

\* Mutant: _apply_mappings_and_encoding works on the frame it is given, not
\* on a copy.
ApplyMappingsAndEncodingCall_NoCopy(self, h, X0) ==
  LET X == X0
      mapped == SelectSeq(h[X].frame.columns,
                          LAMBDA col : col \in DOMAIN self.mappings)
      h1 == SetColumns(h, X, mapped, MapOrdinals(h[X].frame, self.mappings))
      cols_to_encode ==
        SelectSeq(nominal_categorical_features,
                  LAMBDA col : InSeq(col, h1[X].frame.columns))
  IN  IF Len(cols_to_encode) > 0
        THEN [heap |-> Append(h1, Obj(GetDummies(h1[X].frame, cols_to_encode))),
              ref |-> Len(h1) + 1]
        ELSE [heap |-> h1, ref |-> X]

\* _apply_mappings_and_encoding(X0), lines 173-189: X = X.copy() (175); for
\* each mapped column X[col] = X[col].map(mapping), then fillna(-1), on the
\* object X names (177-182); X = pd.get_dummies(...), a new object
\* (185-187); return X.  [heap, ref]: the heap afterwards and the object
\* returned.
ApplyMappingsAndEncodingCall(self, h, X0) ==
  LET c == copy(h, X0)
      X == c.ref
      mapped == SelectSeq(c.heap[X].frame.columns,
                          LAMBDA col : col \in DOMAIN self.mappings)
      h1 == SetColumns(c.heap, X, mapped,
                       MapOrdinals(c.heap[X].frame, self.mappings))
      cols_to_encode ==
        SelectSeq(nominal_categorical_features,
                  LAMBDA col : InSeq(col, h1[X].frame.columns))
  IN  IF Len(cols_to_encode) > 0
        THEN [heap |-> Append(h1, Obj(GetDummies(h1[X].frame, cols_to_encode))),
              ref |-> Len(h1) + 1]
        ELSE [heap |-> h1, ref |-> X]

\* self.scaler.transform(X_processed[num_cols]): the scaled columns, the
\* scaler's parameters being read and not fitted again.
ScaleColumns(scaler, Xp, num_cols) ==
  Frame(Xp.columns,
        [i \in 1..Len(Xp.rows) |->
           [c \in Range(Xp.columns) |->
              IF InSeq(c, num_cols) THEN ScalerTransform(scaler[c], Xp.rows[i][c])
              ELSE Xp.rows[i][c]]])

\* Lines 162-164: X_processed[col] = 0 for each reference column it lacks.
AddColumns(Xp, missing) ==
  Frame(Xp.columns \o missing,
        [i \in 1..Len(Xp.rows) |->
           [c \in Range(Xp.columns \o missing) |->
              IF InSeq(c, Xp.columns) THEN Xp.rows[i][c] ELSE 0]])

\* transform(X0), lines 150-167, on the heap h with the attributes self:
\* X_processed is the object _apply_mappings_and_encoding returns (152);
\* its numerical columns are assigned the scaled values (155-157); the
\* missing reference columns are assigned 0 (162-164); the selection
\* X_processed[self.feature_names_] is a new object (165), which is
\* returned.  No statement assigns an attribute of self.
\* [heap, ret, self].
TransformCall(self, h, X0) ==
  LET a == ApplyMappingsAndEncodingCall(self, h, X0)
      Xp == a.ref
      num_cols == NumCols(a.heap[Xp].frame)
      h2 == IF Len(num_cols) > 0
              THEN SetColumns(a.heap, Xp, num_cols,
                              ScaleColumns(self.scaler, a.heap[Xp].frame, num_cols))
              ELSE a.heap
      missing == SelectSeq(self.feature_names_,
                           LAMBDA c : ~InSeq(c, h2[Xp].frame.columns))
      h3 == SetColumns(h2, Xp, missing, AddColumns(h2[Xp].frame, missing))
  IN  IF Len(self.feature_names_) > 0
        THEN [heap |-> Append(h3, Obj(Reconcile(self.feature_names_, h3[Xp].frame))),
              ret |-> Len(h3) + 1, self |-> self]
        ELSE [heap |-> h2, ret |-> Xp, self |-> self]

-----
(* SpecEnc: a CustomPreprocessor is fitted on a training frame and then    *)
(* transforms a request frame.                                             *)

MaxTrainRows == 3

MaxRows == 2

InputColumns == <<"Duration in month", "Job", "Purpose", "Housing">>

Row(d, j, p, h) ==
  ("Duration in month" :> d) @@ ("Job" :> j) @@ ("Purpose" :> p) @@ ("Housing" :> h)

\* The three applications of test_monitoring.py on these columns, and
\* three more that bring an unknown Job code and other level mixes.
SampleRows ==
  { Row(12, "A173", "A43", "A152"),
    Row(24, "A174", "A40", "A151"),
    Row(6,  "A172", "A44", "A153"),
    Row(12, "A999", "A40", "A152"),
    Row(24, "A173", "A43", "A151"),
    Row(6,  "A999", "A44", "A152") }

FramesUpTo(n) ==
  UNION { { Frame(InputColumns, rows) : rows \in [1..k -> SampleRows] } : k \in 1..n }

\* The columns of a request, in the order to_dataframe builds them.
ApplicationColumns ==
  numerical_features \o ordinal_categorical_features \o nominal_categorical_features

\* The example application of CreditApplicationInput, which is also the
\* first sample of test_monitoring.py and the row of _test_model.
SampleApplication ==
  ("Duration in month" :> 12)
  @@ ("Credit amount" :> 5000)
  @@ ("Installment rate in percentage of disposable income" :> 2)
  @@ ("Age in years" :> 35)
  @@ ("Number of existing credits at this bank" :> 1)
  @@ ("Number of people being liable to provide maintenance for" :> 1)
  @@ ("Status of existing checking account" :> "A12")
  @@ ("Credit history" :> "A32")
  @@ ("Savings account/bonds" :> "A61")
  @@ ("Present employment since" :> "A73")
  @@ ("Job" :> "A173")
  @@ ("Purpose" :> "A43")
  @@ ("Personal status and sex" :> "A93")
  @@ ("Other debtors / guarantors" :> "A101")
  @@ ("Property" :> "A121")
  @@ ("Other installment plans" :> "A143")
  @@ ("Housing" :> "A152")
  @@ ("Telephone" :> "A192")
  @@ ("foreign worker" :> "A201")

\* The Field constraints of CreditApplicationInput: ranges on the six
\* numbers, and nothing but "is a string" on the thirteen codes.  A
\* request that fails them is answered 422 before the handler runs.
Validates(a) ==
  /\ a["Duration in month"] >= 1 /\ a["Duration in month"] <= 120
  /\ a["Credit amount"] > 0
  /\ a["Installment rate in percentage of disposable income"] >= 1
  /\ a["Installment rate in percentage of disposable income"] <= 4
  /\ a["Age in years"] >= 18 /\ a["Age in years"] <= 100
  /\ a["Number of existing credits at this bank"] >= 1
  /\ a["Number of existing credits at this bank"] <= 4
  /\ a["Number of people being liable to provide maintenance for"] >= 1
  /\ a["Number of people being liable to provide maintenance for"] <= 2

\* Codes no mapping knows: a code of no level, a level in lower case, and
\* the empty string.
UnknownCodes == {"A999", "a11", ""}

\* The codes a request may carry in ordinal column c.
OrdinalCodes(c) == DOMAIN ALL_MAPPINGS[c] \cup UnknownCodes

NoFit == [feature_names_ |-> <<>>, scaler |-> <<>>]

NewEnc ==
  [phase |-> "new", feature_names_ |-> <<>>, scaler |-> <<>>,
   mappings |-> ALL_MAPPINGS,
   seen |-> <<>>, X |-> NoFrame, X_writes |-> <<>>, out |-> NoFrame,
   fitted |-> NoFit, input |-> NoFrame, first |-> NoFrame, rejected |-> FALSE]

\* The levels of each nominal input column seen in frame X.
LevelsSeen(X) ==
  [c \in {c \in Range(X.columns) : InSeq(c, nominal_categorical_features)} |->
     {X.rows[i][c] : i \in 1..Len(X.rows)}]

EncFit ==
  /\ enc.phase = "new"
  /\ \E X \in FramesUpTo(MaxTrainRows) :
     \E p \in {Fit(X)} :
       enc' = [enc EXCEPT !.phase = "fitted",
                          !.feature_names_ = p.feature_names_,
                          !.scaler = p.scaler,
                          !.seen = LevelsSeen(X),
                          !.fitted = p]
  /\ UNCHANGED <<fs, art, model, model_path, load_method, started, loads,
                 writer, last, found, pc, loc, epoch, pred>>

\* The caller passes its frame X to transform and keeps it: enc.X is what
\* the caller's object holds after the call, enc.X_writes the assignments
\* made to it, enc.out what the returned object holds.
EncTransform ==
  /\ enc.phase = "fitted"
  /\ \E X \in FramesUpTo(MaxRows) :
     \E r \in {TransformCall(Self(enc), <<Obj(X)>>, 1)} :
       enc' = [enc EXCEPT !.phase = "transformed", !.input = X,
                          !.X = r.heap[1].frame,
                          !.X_writes = r.heap[1].writes,
                          !.out = r.heap[r.ret].frame,
                          !.feature_names_ = r.self.feature_names_,
                          !.scaler = r.self.scaler,
                          !.mappings = r.self.mappings]
  /\ UNCHANGED <<fs, art, model, model_path, load_method, started, loads,
                 writer, last, found, pc, loc, epoch, pred>>

\* The caller passes the frame it kept to transform a second time.
EncTransformAgain ==
  /\ enc.phase = "transformed"
  /\ \E r \in {TransformCall(Self(enc),
                              <<[frame |-> enc.X, writes |-> enc.X_writes]>>, 1)} :
       enc' = [enc EXCEPT !.phase = "repeated", !.first = enc.out,
                          !.X = r.heap[1].frame,
                          !.X_writes = r.heap[1].writes,
                          !.out = r.heap[r.ret].frame,
                          !.feature_names_ = r.self.feature_names_,
                          !.scaler = r.self.scaler,
                          !.mappings = r.self.mappings]
  /\ UNCHANGED <<fs, art, model, model_path, load_method, started, loads,
                 writer, last, found, pc, loc, epoch, pred>>

\* Requests that differ from the example in one ordinal column reach the
\* ordinal step of the pipeline: validated by CreditApplicationInput,
\* turned into a frame, mapped.
EncOrdinalStep ==
  /\ enc.phase = "new"
  /\ \E k \in 1..MaxRows :
     \E c \in Range(ordinal_categorical_features) :
     \E codes \in [1..k -> OrdinalCodes(c)] :
     \E X \in {Frame(ApplicationColumns,
                     [i \in 1..k |-> [SampleApplication EXCEPT ![c] = codes[i]]])} :
     \E ok \in {\A i \in 1..k : Validates(X.rows[i])} :
       enc' = [enc EXCEPT !.phase = "mapped", !.input = X, !.X = X,
                          !.rejected = ~ok,
                          !.out = IF ok THEN MapOrdinals(X, ALL_MAPPINGS)
                                  ELSE NoFrame]
  /\ UNCHANGED <<fs, art, model, model_path, load_method, started, loads,
                 writer, last, found, pc, loc, epoch, pred>>

InitEnc ==
  /\ enc = NewEnc
  /\ fs = Tree("none", "none", "none", "none") /\ art = NoArt
  /\ model = None /\ model_path = NoPath /\ load_method = NoMethod
  /\ started = FALSE /\ loads = 0 /\ writer = NoWriter /\ last = Idle
  /\ found = NotRun /\ pc = <<>> /\ loc = <<>> /\ epoch = 0
  /\ pred = NoPred

NextEnc == EncFit \/ EncTransform \/ EncTransformAgain \/ EncOrdinalStep

SpecEnc == InitEnc /\ [][NextEnc]_vars

(* C2: transform is row-wise independent given the fitted state: when     *)
(* every nominal level of the rows was seen at fit time, the vector of a   *)
(* row inside transform(R) is the vector transform gives for that row      *)
(* alone.                                                                  *)
C2_AllLevelsSeen ==
  \A c \in DOMAIN enc.seen :
    \A i \in 1..Len(enc.X.rows) : enc.X.rows[i][c] \in enc.seen[c]

C2_RowWiseIndependent ==
  (enc.phase = "transformed" /\ C2_AllLevelsSeen) =>
    \A i \in 1..Len(enc.X.rows) :
      enc.out.rows[i] = Transform(enc, Frame(enc.X.columns, <<enc.X.rows[i]>>)).rows[1]

(* C7: the columns of transform's output are exactly feature_names_, in    *)
(* that order and without a repeat, whatever levels the rows hold: a       *)
(* reference column absent after encoding holds 0 in every row, and a      *)
(* column outside the reference list is gone.                              *)
C7_SchemaReconciled ==
  enc.phase = "transformed" =>
    /\ enc.out.columns = enc.feature_names_
    /\ \A j, k \in 1..Len(enc.out.columns) :
         enc.out.columns[j] = enc.out.columns[k] => j = k
    /\ Len(enc.out.rows) = Len(enc.X.rows)
    /\ \A i \in 1..Len(enc.out.rows) :
         /\ DOMAIN enc.out.rows[i] = Range(enc.feature_names_)
         /\ \A c \in Range(enc.feature_names_) :
              ~InSeq(c, ApplyMappingsAndEncoding(enc.X).columns)
                => enc.out.rows[i][c] = 0

\* The request holds a level never seen at fit time, whose column is
\* dropped, and lacks a level seen at fit time, whose column is added.
C7_Witness ==
  /\ enc.phase = "transformed"
  /\ \E c \in Range(ApplyMappingsAndEncoding(enc.X).columns) :
       ~InSeq(c, enc.feature_names_)
  /\ \E c \in Range(enc.feature_names_) :
       ~InSeq(c, ApplyMappingsAndEncoding(enc.X).columns)
  /\ ~C2_AllLevelsSeen

(* C12: an ordinal code outside its column's vocabulary is encoded as -1    *)
(* and never raises: in each of the five ordinal columns, every code of the *)
(* vocabulary becomes its rank whatever the other rows hold, every other    *)
(* string becomes -1, and the request is not rejected on its way to the     *)
(* model.                                                                   *)
C12_Vocabulary(c) ==
  IF c = "Status of existing checking account" THEN <<"A11", "A12", "A13", "A14">>
  ELSE IF c = "Credit history" THEN <<"A30", "A31", "A32", "A33", "A34">>
  ELSE IF c = "Savings account/bonds" THEN <<"A61", "A62", "A63", "A64", "A65">>
  ELSE IF c = "Present employment since" THEN <<"A71", "A72", "A73", "A74", "A75">>
  ELSE <<"A171", "A172", "A173", "A174">>

C12_UnknownIsSentinel ==
  enc.phase = "mapped" =>
    /\ ~enc.rejected
    /\ Len(enc.out.rows) = Len(enc.input.rows)
    /\ \A i \in 1..Len(enc.input.rows) :
       \A c \in Range(ordinal_categorical_features) :
         LET code == enc.input.rows[i][c]
             voc == C12_Vocabulary(c)
         IN  /\ \A r \in 1..Len(voc) : code = voc[r] => enc.out.rows[i][c] = r - 1
             /\ (\A r \in 1..Len(voc) : code # voc[r]) => enc.out.rows[i][c] = -1

\* An unknown employment code beside a known one in the same column.
C12_Witness ==
  /\ enc.phase = "mapped"
  /\ Len(enc.input.rows) = 2
  /\ enc.input.rows[1]["Present employment since"] = "A999"
  /\ enc.out.rows[1]["Present employment since"] = -1
  /\ enc.input.rows[2]["Present employment since"] = "A75"
  /\ enc.out.rows[2]["Present employment since"] = 4

(* C13: transform is repeatable: a second transform of the same input      *)
(* gives the output of the first, and a transform leaves the fitted state   *)
(* (feature_names_, the scaler's parameters, the mappings) as fit left it   *)
(* and the caller's frame as the caller passed it: no column of it is       *)
(* assigned and its rows are those of the input.                            *)
C13_Repeatable ==
  /\ enc.phase \in {"transformed", "repeated"} =>
       /\ enc.X_writes = <<>>
       /\ enc.X = enc.input
       /\ enc.feature_names_ = enc.fitted.feature_names_
       /\ enc.scaler = enc.fitted.scaler
       /\ enc.mappings = ALL_MAPPINGS
  /\ enc.phase = "repeated" =>
       /\ enc.out = enc.first
       /\ enc.out = Transform(enc.fitted, enc.input)

\* The second transform of a request with an unknown Job code and a level
\* of Housing that fit never saw.
C13_Witness ==
  /\ enc.phase = "repeated"
  /\ \E i \in 1..Len(enc.X.rows) : enc.X.rows[i]["Job"] = "A999"
  /\ ~C2_AllLevelsSeen
  /\ enc.out.columns = enc.feature_names_

-----------------------------------------------------------------------------
(* make_prediction and calculate_risk_level.  A probability is a number    *)
(* of ProbScale-ths.                                                       *)

ProbScale == 100

MaxCalls == 2

\* Mutant: the lower bound of LOW is exclusive.
calculate_risk_level_Strict(probability) ==
  IF 10 * probability > 7 * ProbScale THEN "LOW"
  ELSE IF 10 * probability >= 4 * ProbScale THEN "MEDIUM"
  ELSE "HIGH"

\* probability >= 0.7, probability >= 0.4
calculate_risk_level(probability) ==
  IF 10 * probability >= 7 * ProbScale THEN "LOW"
  ELSE IF 10 * probability >= 4 * ProbScale THEN "MEDIUM"
  ELSE "HIGH"

\* What the model does on one row: predict and predict_proba raise or
\* return the label and the row <<P(class 0), P(class 1)>>.
ModelOutputs ==
  { [raises |-> r, prediction |-> y, probabilities |-> <<ProbScale - g, g>>] :
      r \in {"none"}, y \in {0, 1}, g \in 0..ProbScale }
  \cup
  { [raises |-> r, prediction |-> 0, probabilities |-> <<ProbScale, 0>>] :
      r \in {"predict", "predict_proba"} }

NoResult ==
  [prediction |-> -1, probability_good_credit |-> -1,
   probability_bad_credit |-> -1, risk_level |-> "none"]

\* Lines 431-439: probabilities[1] is class 1, probabilities[0] class 0.
ResultOf(o) ==
  [prediction |-> o.prediction,
   probability_good_credit |-> o.probabilities[2],
   probability_bad_credit |-> o.probabilities[1],
   risk_level |-> calculate_risk_level(o.probabilities[2])]

ZeroCounters ==
  [success |-> 0, error |-> 0, good |-> 0, bad |-> 0, latency |-> 0,
   api_errors |-> 0]

\* Mutant: the latency of a failed call is not observed.
CountersAfter_NoErrorLatency(k, o) ==
  IF o.raises = "none"
    THEN [k EXCEPT !.success = @ + 1,
                   !.good = IF o.prediction = 1 THEN @ + 1 ELSE @,
                   !.bad = IF o.prediction = 1 THEN @ ELSE @ + 1,
                   !.latency = @ + 1]
    ELSE [k EXCEPT !.error = @ + 1, !.api_errors = @ + 1]

\* Mutant: the good counter is incremented on every success.
CountersAfter_GoodOnSuccess(k, o) ==
  IF o.raises = "none"
    THEN [k EXCEPT !.success = @ + 1,
                   !.good = @ + 1,
                   !.bad = IF o.prediction = 1 THEN @ ELSE @ + 1,
                   !.latency = @ + 1]
    ELSE [k EXCEPT !.error = @ + 1, !.api_errors = @ + 1, !.latency = @ + 1]

\* Lines 442-454 on success, lines 460-470 on an exception.
CountersAfter(k, o) ==
  IF o.raises = "none"
    THEN [k EXCEPT !.success = @ + 1,
                   !.good = IF o.prediction = 1 THEN @ + 1 ELSE @,
                   !.bad = IF o.prediction = 1 THEN @ ELSE @ + 1,
                   !.latency = @ + 1]
    ELSE [k EXCEPT !.error = @ + 1, !.api_errors = @ + 1, !.latency = @ + 1]

NewPred ==
  [phase |-> "new", calls |-> 0, counters |-> ZeroCounters,
   outputs |-> [raises |-> "none", prediction |-> 0,
                probabilities |-> <<ProbScale, 0>>],
   status |-> 0, result |-> NoResult]

\* make_prediction(model, df): the result, or HTTPException(500).
MakePrediction ==
  /\ pred.calls < MaxCalls
  /\ \E o \in ModelOutputs :
       pred' = [phase |-> "called", calls |-> pred.calls + 1,
                counters |-> CountersAfter(pred.counters, o),
                outputs |-> o,
                status |-> IF o.raises = "none" THEN 200 ELSE 500,
                result |-> IF o.raises = "none" THEN ResultOf(o) ELSE NoResult]
  /\ UNCHANGED <<fs, art, model, model_path, load_method, started, loads,
                 writer, last, found, pc, loc, epoch, enc>>

InitRisk ==
  /\ pred = NewPred
  /\ fs = Tree("none", "none", "none", "none") /\ art = NoArt
  /\ model = None /\ model_path = NoPath /\ load_method = NoMethod
  /\ started = FALSE /\ loads = 0 /\ writer = NoWriter /\ last = Idle
  /\ found = NotRun /\ pc = <<>> /\ loc = <<>> /\ epoch = 0
  /\ enc = NoEnc

NextRisk == MakePrediction

SpecRisk == InitRisk /\ [][NextRisk]_vars

(* C8: the risk level partitions the probability of good credit with       *)
(* inclusive lower bounds: LOW iff p >= 0.70, MEDIUM iff 0.40 <= p < 0.70, *)
(* HIGH iff p < 0.40; and make_prediction applies it to the probability of *)
(* class 1.                                                                *)
C8_RiskBands ==
  (pred.phase = "called" /\ pred.status = 200) =>
    LET g == pred.outputs.probabilities[2]
        r == pred.result.risk_level
    IN  /\ pred.result.probability_good_credit = g
        /\ r \in {"LOW", "MEDIUM", "HIGH"}
        /\ r = "LOW" <=> 10 * g >= 7 * ProbScale
        /\ r = "MEDIUM" <=> (10 * g >= 4 * ProbScale /\ 10 * g < 7 * ProbScale)
        /\ r = "HIGH" <=> 10 * g < 4 * ProbScale

\* The probability of good credit is exactly 0.70 and the level is LOW.
C8_Witness ==
  /\ pred.phase = "called" /\ pred.status = 200
  /\ 10 * pred.outputs.probabilities[2] = 7 * ProbScale
  /\ pred.result.risk_level = "LOW"
  /\ pred.result.probability_bad_credit # pred.result.probability_good_credit

(* C17: the prediction metrics are consistent and only observe: after any  *)
(* sequence of make_prediction calls success + error is the number of       *)
(* calls, so is the number of latency observations, good + bad is the       *)
(* success count, a call increments good exactly when it succeeds with      *)
(* label 1, and calls with the same model outputs return the same result    *)
(* whatever the counters hold.                                              *)
C17_MetricsConsistent ==
  [][ pred'.calls = pred.calls + 1 =>
        /\ pred'.counters.success + pred'.counters.error = pred'.calls
        /\ pred'.counters.latency = pred'.calls
        /\ pred'.counters.good + pred'.counters.bad = pred'.counters.success
        /\ pred'.counters.good - pred.counters.good =
             (IF pred'.status = 200 /\ pred'.outputs.prediction = 1 THEN 1 ELSE 0)
        /\ (pred.phase = "called" /\ pred'.outputs = pred.outputs)
             => (pred'.result = pred.result /\ pred'.status = pred.status) ]_vars

\* Two calls, a failed one and a successful one with label 0.
C17_Witness ==
  /\ pred.phase = "called" /\ pred.calls = 2
  /\ pred.counters.error = 1 /\ pred.counters.bad = 1 /\ pred.counters.good = 0
  /\ pred.counters.latency = 2

-----------------------------------------------------------------------------
(* SpecServe: predict_credit and predict_batch with a model in the cache:  *)
(* validation of the body, to_dataframe, make_prediction row after row and  *)
(* the response.                                                            *)

MaxRequests == 2

MaxBatchRows == 3

model_version == "local-docker"

\* make_prediction(model, df) with the counters k, o being what the model
\* does on df: the counters afterwards and the result or the
\* HTTPException(500).
make_prediction(k, o) ==
  [counters |-> CountersAfter(k, o),
   status |-> IF o.raises = "none" THEN 200 ELSE 500,
   result |-> IF o.raises = "none" THEN ResultOf(o) ELSE NoResult]

\* to_dataframe: one row under the original column names.
ToDataFrame(a) == Frame(ApplicationColumns, <<a>>)

\* pd.concat(dfs, ignore_index=True)
RECURSIVE Concat(_, _)
Concat(dfs, i) ==
  IF i > Len(dfs) THEN <<>> ELSE dfs[i].rows \o Concat(dfs, i + 1)

\* Mutant: concatenating no frame gives a frame of no rows.
pd_concat_Empty(dfs) ==
  [raises |-> FALSE, frame |-> Frame(ApplicationColumns, Concat(dfs, 1))]

\* Line 594: pd.concat raises ValueError when dfs is empty, and otherwise
\* gives the rows of the frames one after the other.
pd_concat(dfs) ==
  IF Len(dfs) = 0
    THEN [raises |-> TRUE, frame |-> NoFrame]
    ELSE [raises |-> FALSE, frame |-> Frame(ApplicationColumns, Concat(dfs, 1))]

\* The applications of the requests: the example, the example with a Job
\* code no mapping knows, and the example with a duration below the
\* minimum of 1.
ServeApplications ==
  { SampleApplication,
    [SampleApplication EXCEPT !["Job"] = "A999"],
    [SampleApplication EXCEPT !["Duration in month"] = 0] }

\* What the model may do on a row.
ServeOutputs ==
  { [raises |-> "none", prediction |-> 1, probabilities |-> <<20, 80>>],
    [raises |-> "none", prediction |-> 0, probabilities |-> <<70, 30>>],
    [raises |-> "predict", prediction |-> 0, probabilities |-> <<ProbScale, 0>>],
    [raises |-> "predict_proba", prediction |-> 0, probabilities |-> <<ProbScale, 0>>] }

\* The cached model: what predict and predict_proba do on each valid row.
Classifiers == [{a \in ServeApplications : Validates(a)} -> ServeOutputs]

\* PredictionResponse(**result, model_version=..., timestamp=...)
PredictionResponse(result) ==
  [prediction |-> result.prediction,
   probability_good_credit |-> result.probability_good_credit,
   probability_bad_credit |-> result.probability_bad_credit,
   risk_level |-> result.risk_level,
   model_version |-> model_version]

\* Mutant: each response is put at the head of predictions_list.
RECURSIVE RunRows_Prepend(_, _, _, _, _)
RunRows_Prepend(k, clf, df_batch, i, predictions_list) ==
  IF i > Len(df_batch.rows)
    THEN [counters |-> k, predictions |-> predictions_list, failed |-> FALSE,
          invoked |-> Len(df_batch.rows)]
  ELSE LET df_single == Frame(df_batch.columns, <<df_batch.rows[i]>>)
           r == make_prediction(k, clf[df_single.rows[1]])
       IN  IF r.status = 500
             THEN [counters |-> r.counters, predictions |-> <<>>, failed |-> TRUE,
                   invoked |-> i]
             ELSE RunRows_Prepend(r.counters, clf, df_batch, i + 1,
                                  <<PredictionResponse(r.result)>> \o predictions_list)

\* Mutant: a row on which the model raises is left out and the loop goes on.
RECURSIVE RunRows_SkipFailed(_, _, _, _, _)
RunRows_SkipFailed(k, clf, df_batch, i, predictions_list) ==
  IF i > Len(df_batch.rows)
    THEN [counters |-> k, predictions |-> predictions_list, failed |-> FALSE,
          invoked |-> Len(df_batch.rows)]
  ELSE LET df_single == Frame(df_batch.columns, <<df_batch.rows[i]>>)
           r == make_prediction(k, clf[df_single.rows[1]])
       IN  IF r.status = 500
             THEN RunRows_SkipFailed(r.counters, clf, df_batch, i + 1,
                                     predictions_list)
             ELSE RunRows_SkipFailed(r.counters, clf, df_batch, i + 1,
                                     Append(predictions_list,
                                            PredictionResponse(r.result)))

\* Lines 599-610: for each row of df_batch in order, make_prediction on
\* the one-row frame and append the response; the HTTPException of a row
\* ends the loop and the request.
RECURSIVE RunRows(_, _, _, _, _)
RunRows(k, clf, df_batch, i, predictions_list) ==
  IF i > Len(df_batch.rows)
    THEN [counters |-> k, predictions |-> predictions_list, failed |-> FALSE,
          invoked |-> Len(df_batch.rows)]
  ELSE LET df_single == Frame(df_batch.columns, <<df_batch.rows[i]>>)
           r == make_prediction(k, clf[df_single.rows[1]])
       IN  IF r.status = 500
             THEN [counters |-> r.counters, predictions |-> <<>>, failed |-> TRUE,
                   invoked |-> i]
             ELSE RunRows(r.counters, clf, df_batch, i + 1,
                          Append(predictions_list, PredictionResponse(r.result)))

NewServe(clf) ==
  [phase |-> "serving", requests |-> 0, clf |-> clf, counters |-> ZeroCounters,
   op |-> "none", applications |-> <<>>, code |-> 0, predictions |-> <<>>,
   total_processed |-> 0, invoked |-> 0]

\* The response to a request of op on applications: 422 from the
\* validation of the body, else what the handler does.
Answer(op, applications, code, run) ==
  [pred EXCEPT !.phase = "answered", !.requests = @ + 1, !.op = op,
               !.applications = applications, !.code = code,
               !.counters = run.counters,
               !.predictions = IF code = 200 THEN run.predictions ELSE <<>>,
               !.total_processed = IF code = 200 THEN Len(run.predictions) ELSE 0,
               !.invoked = run.invoked]

NotRunRows(k) == [counters |-> k, predictions |-> <<>>, failed |-> FALSE, invoked |-> 0]

\* POST /api/predict with body a.
PredictCreditRequest ==
  /\ pred.requests < MaxRequests
  /\ \E a \in ServeApplications :
       IF ~Validates(a)
         THEN pred' = Answer("predict", <<a>>, 422, NotRunRows(pred.counters))
         ELSE \E run \in {RunRows(pred.counters, pred.clf, ToDataFrame(a), 1, <<>>)} :
                pred' = Answer("predict", <<a>>,
                               IF run.failed THEN 500 ELSE 200, run)
  /\ UNCHANGED <<fs, art, model, model_path, load_method, started, loads,
                 writer, last, found, pc, loc, epoch, enc>>

\* POST /api/predict-batch with the applications apps; pd.concat raises
\* ValueError on an empty list, which becomes a 500.
PredictBatchRequest ==
  /\ pred.requests < MaxRequests
  /\ \E n \in 0..MaxBatchRows :
     \E apps \in [1..n -> ServeApplications] :
       IF \E i \in 1..n : ~Validates(apps[i])
         THEN pred' = Answer("predict-batch", apps, 422, NotRunRows(pred.counters))
       ELSE \E df_batch \in {pd_concat([i \in 1..n |-> ToDataFrame(apps[i])])} :
              IF df_batch.raises
                THEN pred' = Answer("predict-batch", apps, 500,
                                    NotRunRows(pred.counters))
                ELSE \E run \in {RunRows(pred.counters, pred.clf, df_batch.frame,
                                         1, <<>>)} :
                       pred' = Answer("predict-batch", apps,
                                      IF run.failed THEN 500 ELSE 200, run)
  /\ UNCHANGED <<fs, art, model, model_path, load_method, started, loads,
                 writer, last, found, pc, loc, epoch, enc>>

InitServe ==
  /\ \E clf \in Classifiers : pred = NewServe(clf)
  /\ fs = Tree("none", "none", "none", "none") /\ art = NoArt
  /\ model = None /\ model_path = NoPath /\ load_method = NoMethod
  /\ started = TRUE /\ loads = 0 /\ writer = NoWriter /\ last = Idle
  /\ found = NotRun /\ pc = <<>> /\ loc = <<>> /\ epoch = 0
  /\ enc = NoEnc

NextServe == PredictCreditRequest \/ PredictBatchRequest

SpecServe == InitServe /\ [][NextServe]_vars

(* C14: for a batch of n >= 1 valid applications on all of which the model *)
(* succeeds, predict_batch answers n predictions, the i-th being the result *)
(* for the i-th application, and total_processed = n.                       *)
C14_BatchInOrder ==
  ( /\ pred.phase = "answered" /\ pred.op = "predict-batch"
    /\ Len(pred.applications) >= 1
    /\ \A i \in 1..Len(pred.applications) :
         /\ Validates(pred.applications[i])
         /\ pred.clf[pred.applications[i]].raises = "none" )
  =>
  ( /\ pred.code = 200
    /\ Len(pred.predictions) = Len(pred.applications)
    /\ pred.total_processed = Len(pred.applications)
    /\ \A i \in 1..Len(pred.applications) :
         LET o == pred.clf[pred.applications[i]]
         IN  /\ pred.predictions[i].prediction = o.prediction
             /\ pred.predictions[i].probability_good_credit = o.probabilities[2]
             /\ pred.predictions[i].probability_bad_credit = o.probabilities[1] )

\* Three applications, the model answering label 1 for the first and the
\* third and label 0 for the second.
C14_Witness ==
  /\ pred.phase = "answered" /\ pred.op = "predict-batch" /\ pred.code = 200
  /\ pred.total_processed = 3
  /\ pred.predictions[1].prediction = 1
  /\ pred.predictions[2].prediction = 0
  /\ pred.predictions[3].prediction = 1
  /\ pred.applications[1] # pred.applications[2]

(* C16: when the model raises in make_prediction, the call observes the    *)
(* latency once and increments the error counter and the error-type        *)
(* counter once each, and neither the success counter nor good or bad; the  *)
(* client receives status 500, which is not the status of a validation      *)
(* error, and a validation error reaches no counter.                        *)
C16_ErrorRecorded ==
  [][ pred'.requests = pred.requests + 1 =>
        /\ ( /\ pred'.invoked = 1
             /\ pred.clf[pred'.applications[1]].raises # "none" )
           => /\ pred'.counters = [pred.counters EXCEPT !.error = @ + 1,
                                                        !.api_errors = @ + 1,
                                                        !.latency = @ + 1]
              /\ pred'.code = 500
              /\ pred'.predictions = <<>>
        /\ (\E i \in 1..Len(pred'.applications) : ~Validates(pred'.applications[i]))
           => /\ pred'.code = 422
              /\ pred'.invoked = 0
              /\ pred'.counters = pred.counters ]_vars

\* A predict request on which predict_proba raised, after an earlier
\* request that succeeded.
C16_Witness ==
  /\ pred.phase = "answered" /\ pred.op = "predict" /\ pred.code = 500
  /\ pred.clf[pred.applications[1]].raises = "predict_proba"
  /\ pred.counters.error = 1 /\ pred.counters.success >= 1
  /\ pred.counters.latency = pred.counters.success + 1

\* The rows of a batch on which the model raises.
C23_FailingRows(clf, apps) ==
  {i \in 1..Len(apps) : clf[apps[i]].raises # "none"}

\* The rows before row f on which the model answers label b.
C23_Labelled(clf, apps, f, b) ==
  Cardinality({i \in 1..(f - 1) : clf[apps[i]].prediction = b})

(* C23: predict_batch aborts on the first row on which the model raises:   *)
(* the rows before it have been predicted, in input order, the failing row  *)
(* is the last one passed to the model, and the request answers an error    *)
(* (500) with no prediction at all, not the list of those already made.     *)
C23_AbortOnFirstFailure ==
  [][ ( /\ pred'.requests = pred.requests + 1
        /\ pred'.op = "predict-batch"
        /\ \A i \in 1..Len(pred'.applications) : Validates(pred'.applications[i])
        /\ C23_FailingRows(pred.clf, pred'.applications) # {} )
      =>
      \E f \in C23_FailingRows(pred.clf, pred'.applications) :
        /\ \A i \in C23_FailingRows(pred.clf, pred'.applications) : f <= i
        /\ pred'.code = 500
        /\ pred'.predictions = <<>>
        /\ pred'.total_processed = 0
        /\ pred'.invoked = f
        /\ pred'.counters =
             [pred.counters EXCEPT
                !.success = @ + (f - 1),
                !.good = @ + C23_Labelled(pred.clf, pred'.applications, f, 1),
                !.bad = @ + C23_Labelled(pred.clf, pred'.applications, f, 0),
                !.error = @ + 1,
                !.api_errors = @ + 1,
                !.latency = @ + f] ]_vars

\* Three applications: the model answers the first, raises on the second
\* and would have answered the third.
C23_Witness ==
  /\ pred.phase = "answered" /\ pred.op = "predict-batch" /\ pred.code = 500
  /\ Len(pred.applications) = 3
  /\ pred.clf[pred.applications[1]].raises = "none"
  /\ pred.clf[pred.applications[2]].raises # "none"
  /\ pred.clf[pred.applications[3]].raises = "none"
  /\ pred.invoked = 2
  /\ pred.predictions = <<>>
  /\ pred.counters.success >= 1 /\ pred.counters.error >= 1

(* C25: a predict_batch request with an empty applications list, sent while *)
(* a model is available, is not answered with an empty result: it answers   *)
(* 500, the model is not invoked and no prediction counter changes.         *)
C25_EmptyBatchFails ==
  [][ ( /\ pred'.requests = pred.requests + 1
        /\ pred'.op = "predict-batch"
        /\ pred'.applications = <<>> )
      =>
      ( /\ pred'.code = 500
        /\ pred'.predictions = <<>>
        /\ pred'.total_processed = 0
        /\ pred'.invoked = 0
        /\ pred'.counters = pred.counters ) ]_vars

\* An empty batch refused after a request that the model answered.
C25_Witness ==
  /\ pred.phase = "answered" /\ pred.op = "predict-batch"
  /\ pred.applications = <<>>
  /\ pred.code = 500
  /\ pred.requests = 2
  /\ pred.counters.success >= 1
  /\ pred.counters.error = 0

====
